---- MODULE Spec2Model ----
(***************************************************************************)
(* Model of app.py: the Streamlit sales dashboard.  One script run of      *)
(* main() is one action; validate_data, calculate_metrics and              *)
(* load_sales_data are operators over the table read from the workbook.    *)
(***************************************************************************)
EXTENDS Integers, Sequences, FiniteSets, TLC

VARIABLES
    file,            \* the workbook Hemlock2023.xlsx as pd.read_excel sees it
    session_state,   \* st.session_state: the set of keys it holds
    username,        \* value of the "Username" text input
    password,        \* value of the "Password" text input
    rerun_requested, \* st.rerun() was called: the script is about to run again
    run,             \* what the latest run of main() did
    last,            \* what the latest call of load_sales_data returned
    prev             \* what the call before that returned

vars == <<file, session_state, username, password, rerun_requested, run, last, prev>>

(***************************************************************************)
(* Bounds of the model.                                                    *)
(***************************************************************************)
MaxRows == 2

(***************************************************************************)
(* Cells of the table.  A cell is a number, a blank (NaN) or a string; a   *)
(* string is the sequence of its characters.                               *)
(***************************************************************************)
Num(n) == [t |-> "num", n |-> n, s |-> <<>>]
Blank == [t |-> "blank", n |-> 0, s |-> <<>>]
Str(s) == [t |-> "str", n |-> 0, s |-> s]

Digits == <<"0", "1", "2", "3", "4", "5", "6", "7", "8", "9">>

IsDigit(c) == \E i \in 1..10 : Digits[i] = c

DigitValue(c) == (CHOOSE i \in 1..10 : Digits[i] = c) - 1

RECURSIVE DigitsValue(_)
DigitsValue(s) ==
    IF s = <<>> THEN 0
    ELSE 10 * DigitsValue(SubSeq(s, 1, Len(s) - 1)) + DigitValue(s[Len(s)])

\* pd.to_numeric(..., errors='coerce') on one cell: a number stays, a string of
\* digits parses, every other string and the blank become NaN.
to_numeric(cell) ==
    IF cell.t = "num" THEN cell
    ELSE IF cell.t = "str" /\ cell.s # <<>> /\ \A i \in 1..Len(cell.s) : IsDigit(cell.s[i])
         THEN Num(DigitsValue(cell.s))
    ELSE Blank

\* df[col]: the cells of one column, top to bottom
Column(df, col) == [i \in 1..Len(df.rows) |-> df.rows[i][col]]

HasColumn(df, col) == \E i \in 1..Len(df.columns) : df.columns[i] = col

(***************************************************************************)
(* validate_data                                                           *)
(***************************************************************************)
required_columns ==
    <<"Order type", "Total sales", "Covers", "Receipts", "USD/cover", "USD/receipt">>

numeric_columns == <<"Total sales", "Covers", "Receipts", "USD/cover", "USD/receipt">>

Issue(kind, col, n) == [kind |-> kind, col |-> col, n |-> n]

\* the list comprehension of line 54
missing_columns(df) == SelectSeq(required_columns, LAMBDA col : ~HasColumn(df, col))

MissingColumnIssues(df) ==
    IF missing_columns(df) # <<>>
    THEN << [kind |-> "missing_columns", col |-> missing_columns(df), n |-> 0] >>
    ELSE <<>>

NonNumeric(df, col) ==
    HasColumn(df, col) /\ \E i \in 1..Len(df.rows) : to_numeric(df.rows[i][col]).t = "blank"

Negative(df, col) ==
    /\ HasColumn(df, col)
    /\ \E i \in 1..Len(df.rows) :
          LET c == to_numeric(df.rows[i][col]) IN c.t = "num" /\ c.n < 0

\* df[col].isna().sum()
missing_count(df, col) == Cardinality({i \in 1..Len(df.rows) : df.rows[i][col].t = "blank"})

RECURSIVE IssuesOver(_, _, _, _)
\* one of the three for-loops of validate_data: the issues it appends, in order
IssuesOver(df, cols, kind, i) ==
    IF i > Len(cols) THEN <<>>
    ELSE LET col == cols[i]
             hit == CASE kind = "non_numeric" -> NonNumeric(df, col)
                      [] kind = "negative" -> Negative(df, col)
                      [] kind = "missing_values" -> missing_count(df, col) > 0
             n == IF kind = "missing_values" THEN missing_count(df, col) ELSE 0
         IN  (IF hit THEN << Issue(kind, <<col>>, n) >> ELSE <<>>)
                 \o IssuesOver(df, cols, kind, i + 1)

validate_data(df) ==
    MissingColumnIssues(df)
        \o IssuesOver(df, numeric_columns, "non_numeric", 1)
        \o IssuesOver(df, numeric_columns, "negative", 1)
        \o IssuesOver(df, df.columns, "missing_values", 1)

(***************************************************************************)
(* Values that pandas and numpy hand back to calculate_metrics.            *)
(*   "np"    a numpy number (the sum of an int64 or float64 column)        *)
(*   "pyint" a Python int (the sum of an empty object column)              *)
(*   "str"   a Python string (the sum of an object column of strings)      *)
(*   "ratio" the quotient v / d of two numbers, d # 0                      *)
(*   "nan", "inf", "-inf"  what numpy division by zero yields              *)
(***************************************************************************)
Val(k, v, d, s) == [k |-> k, v |-> v, d |-> d, s |-> s]

Returned(x) == [raised |-> "", val |-> x]
Raised(e) == [raised |-> e, val |-> Val("none", 0, 0, <<>>)]

EmptyDict == [k \in {} |-> 0]

RECURSIVE SumCells(_)
\* numeric sum with skipna=True: a blank adds nothing
SumCells(cells) ==
    IF cells = <<>> THEN 0
    ELSE SumCells(SubSeq(cells, 1, Len(cells) - 1))
             + (IF cells[Len(cells)].t = "num" THEN cells[Len(cells)].n ELSE 0)

RECURSIVE ConcatCells(_)
\* sum of an object column of strings: Python's + on str
ConcatCells(cells) ==
    IF cells = <<>> THEN <<>>
    ELSE ConcatCells(SubSeq(cells, 1, Len(cells) - 1)) \o cells[Len(cells)].s

\* Series.sum() by the dtype read_excel gave the cells
SumSeries(cells) ==
    IF cells = <<>> THEN Returned(Val("pyint", 0, 1, <<>>))
    ELSE IF \A i \in 1..Len(cells) : cells[i].t = "str"
         THEN Returned(Val("str", 0, 1, ConcatCells(cells)))
    ELSE IF \E i \in 1..Len(cells) : cells[i].t = "str"
         THEN Raised("TypeError")
    ELSE Returned(Val("np", SumCells(cells), 1, <<>>))

\* df[col].sum()
ColumnSum(df, col) ==
    IF ~HasColumn(df, col) THEN Raised("KeyError") ELSE SumSeries(Column(df, col))

\* the group keys of df.groupby(key): blank keys are dropped (dropna=True)
GroupKeys(df, key) ==
    {df.rows[i][key] : i \in {j \in 1..Len(df.rows) : df.rows[j][key].t # "blank"}}

\* the cells of col in the rows whose key cell is k, top to bottom
GroupCells(df, key, col, k) ==
    LET picked == SelectSeq([i \in 1..Len(df.rows) |-> df.rows[i]], LAMBDA r : r[key] = k)
    IN  [i \in 1..Len(picked) |-> picked[i][col]]

\* df.groupby(key)[col].sum().to_dict()
GroupBySum(df, key, col) ==
    IF ~HasColumn(df, key) \/ ~HasColumn(df, col) THEN Raised("KeyError")
    ELSE LET sums == [k \in GroupKeys(df, key) |-> SumSeries(GroupCells(df, key, col, k))]
         IN  IF \E k \in DOMAIN sums : sums[k].raised # ""
             THEN Raised("TypeError")
             ELSE Returned([k \in DOMAIN sums |-> sums[k].val])

\* a / b as Python and numpy evaluate it
Div(a, b) ==
    IF a.k = "str" \/ b.k = "str" THEN Raised("TypeError")
    ELSE IF b.v = 0
         THEN IF a.k = "pyint" /\ b.k = "pyint" THEN Raised("ZeroDivisionError")
              ELSE IF a.v = 0 THEN Returned(Val("nan", 0, 0, <<>>))
              ELSE IF a.v > 0 THEN Returned(Val("inf", 0, 0, <<>>))
              ELSE Returned(Val("-inf", 0, 0, <<>>))
    ELSE Returned(Val("ratio", a.v, b.v, <<>>))

(***************************************************************************)
(* calculate_metrics: the statements of the try block, one step each.      *)
(***************************************************************************)
TotalSteps ==
    << [metric |-> "total_sales", col |-> "Total sales"],
       [metric |-> "total_covers", col |-> "Covers"],
       [metric |-> "total_receipts", col |-> "Receipts"] >>

RatioSteps ==
    << [metric |-> "avg_check", num |-> "total_sales", den |-> "total_receipts"],
       [metric |-> "revenue_per_cover", num |-> "total_sales", den |-> "total_covers"],
       [metric |-> "items_per_cover", num |-> "total_receipts", den |-> "total_covers"] >>

MetricNames ==
    {"total_sales", "total_covers", "total_receipts",
     "avg_check", "revenue_per_cover", "items_per_cover"}

None == [none |-> TRUE, metrics |-> EmptyDict, breakdowns |-> EmptyDict]

\* the except clause handing back what the try block had filled in so far
ExceptReturnPartial(m, b) == [none |-> FALSE, metrics |-> m, breakdowns |-> b]

\* the except clause, lines 127-129: st.error and return None, None
ExceptReturn(m, b) == None

\* a total set to a literal in place of the column's sum
TotalOfLiteral(df, col) == Returned(Val("np", 400, 1, <<>>))

\* the statement that sets metrics[metric] of a total, lines 86, 93, 100
TotalOf(df, col) == ColumnSum(df, col)

\* the statement that sets breakdowns[metric] of a total, lines 87-90, 94-97, 101-104
BreakdownOf(df, col) == GroupBySum(df, "Order type", col)

RECURSIVE RunSteps(_, _, _, _)
RunSteps(df, i, m, b) ==
    IF i <= 3
    THEN LET st == TotalSteps[i]
             total == TotalOf(df, st.col)
         IN  IF total.raised # "" THEN ExceptReturn(m, b)
             ELSE LET m1 == m @@ (st.metric :> total.val)
                      by == BreakdownOf(df, st.col)
                  IN  IF by.raised # "" THEN ExceptReturn(m1, b)
                      ELSE RunSteps(df, i + 1, m1,
                               b @@ (st.metric :> [calculation |-> st.col,
                                                   by_order_type |-> by.val,
                                                   raw_calculation |-> <<>>]))
    ELSE IF i <= 6
    THEN LET st == RatioSteps[i - 3]
             q == Div(m[st.num], m[st.den])
         IN  IF q.raised # "" THEN ExceptReturn(m, b)
             ELSE RunSteps(df, i + 1, m @@ (st.metric :> q.val),
                      b @@ (st.metric :> [calculation |-> st.metric,
                                          by_order_type |-> EmptyDict,
                                          raw_calculation |-> <<m[st.num], m[st.den]>>]))
    ELSE [none |-> FALSE, metrics |-> m, breakdowns |-> b]

calculate_metrics(df) == RunSteps(df, 1, EmptyDict, EmptyDict)

(***************************************************************************)
(* load_sales_data.  The result carries what the call returned (none, df,  *)
(* metrics, breakdowns) and what it showed (the issues of st.warning).     *)
(***************************************************************************)
NoTable == [readable |-> FALSE, columns |-> <<>>, rows |-> <<>>]

NotRun ==
    [called |-> FALSE, none |-> TRUE, df |-> NoTable, metrics |-> EmptyDict,
     breakdowns |-> EmptyDict, issues |-> <<>>]

\* a load without the 'if metrics is None' test of lines 147-148
load_sales_data_unchecked(f) ==
    IF ~f.readable
    THEN [called |-> TRUE, none |-> TRUE, df |-> NoTable, metrics |-> EmptyDict,
          breakdowns |-> EmptyDict, issues |-> <<>>]
    ELSE LET calc == calculate_metrics(f)
         IN  [called |-> TRUE, none |-> FALSE, df |-> f, metrics |-> calc.metrics,
              breakdowns |-> calc.breakdowns, issues |-> validate_data(f)]

load_sales_data(f) ==
    IF ~f.readable
    THEN \* pd.read_excel raises: the except clause of lines 152-154
         [called |-> TRUE, none |-> TRUE, df |-> NoTable, metrics |-> EmptyDict,
          breakdowns |-> EmptyDict, issues |-> <<>>]
    ELSE LET df == f
             issues == validate_data(df)
             calc == calculate_metrics(df)
         IN  IF calc.none
             THEN [called |-> TRUE, none |-> TRUE, df |-> NoTable, metrics |-> EmptyDict,
                   breakdowns |-> EmptyDict, issues |-> issues]
             ELSE [called |-> TRUE, none |-> FALSE, df |-> df, metrics |-> calc.metrics,
                   breakdowns |-> calc.breakdowns, issues |-> issues]

(***************************************************************************)
(* The workbooks the model reads: every table of at most MaxRows rows over *)
(* the rows and headers below, and the workbook that cannot be read.       *)
(***************************************************************************)
AllColumns == required_columns \o <<"Loss Amount", "Returned Amount">>

ColumnSet(header) == {header[i] : i \in 1..Len(header)}

Without(header, cols) == SelectSeq(header, LAMBDA c : c \notin cols)

Headers ==
    {required_columns, AllColumns, Without(required_columns, {"USD/cover", "USD/receipt"})}
        \cup {Without(required_columns, {required_columns[i]}) : i \in 1..Len(required_columns)}

DineIn == Str(<<"D", "i", "n", "e", "-", "i", "n">>)
Other == Str(<<"O", "t", "h", "e", "r">>)

Row(ot, ts, cv, rc) ==
    [c \in ColumnSet(AllColumns) |->
        CASE c = "Order type" -> ot
          [] c = "Total sales" -> ts
          [] c = "Covers" -> cv
          [] c = "Receipts" -> rc
          [] c = "USD/cover" -> Num(100)
          [] c = "USD/receipt" -> Num(60)
          [] c = "Loss Amount" -> Num(50)
          [] c = "Returned Amount" -> Num(0)]

GoodRow == Row(DineIn, Num(200), Num(2), Num(3))

NumericRows ==
    {Row(DineIn, Num(ts), Num(cv), Num(rc)) : ts \in {0, 200}, cv \in {0, 2}, rc \in {0, 3}}
        \cup {Row(Other, Num(ts), Num(cv), Num(3)) : ts \in {0, 200}, cv \in {0, 2}}
        \cup {Row(Blank, Num(200), Num(2), Num(3)), Row(Other, Num(-50), Num(0), Num(0))}

MalformedRows ==
    {[GoodRow EXCEPT !["Total sales"] = c] :
        c \in {Blank, Str(<<"N", "/", "A">>), Str(<<"$", "-">>), Str(<<>>)}}
        \cup {[GoodRow EXCEPT !["Covers"] = Blank],
              [GoodRow EXCEPT !["Receipts"] = Str(<<"8", "0">>)],
              [GoodRow EXCEPT !["USD/cover"] = Num(-1)]}

\* the rows of Scenario A: currency-formatted 'Total sales' cells
CurrencyRows ==
    {Row(DineIn, Str(<<"$", "1", ",", "0", "0", "0", ".", "0", "0">>), Num(50), Num(80)),
     Row(Other, Str(<<"$", "5", "0", "0", ".", "0", "0">>), Num(20), Num(30))}

Rows == NumericRows \cup MalformedRows \cup CurrencyRows

SessionRows ==
    {GoodRow, Row(Other, Num(0), Num(0), Num(0)), [GoodRow EXCEPT !["Covers"] = Blank],
     [GoodRow EXCEPT !["Total sales"] = Str(<<"N", "/", "A">>)]}

SessionHeaders == {required_columns, Without(required_columns, {"Covers"})}

RECURSIVE SeqsUpTo(_, _)
SeqsUpTo(S, n) ==
    IF n = 0 THEN {<<>>}
    ELSE LET shorter == SeqsUpTo(S, n - 1)
         IN  shorter \cup {Append(q, x) : q \in {r \in shorter : Len(r) = n - 1}, x \in S}

Table(header, rows) ==
    [readable |-> TRUE,
     columns |-> header,
     rows |-> [i \in 1..Len(rows) |-> [c \in ColumnSet(header) |-> rows[i][c]]]]

Tables(headers, rowset) == {Table(h, q) : h \in headers, q \in SeqsUpTo(rowset, MaxRows)}

Files == {NoTable} \cup Tables(Headers, Rows)

SessionFiles == {NoTable} \cup Tables(SessionHeaders, SessionRows)

(***************************************************************************)
(* main(): one run of the script.                                          *)
(***************************************************************************)
LowerChar(c) ==
    CASE c = "A" -> "a" [] c = "B" -> "b" [] c = "C" -> "c" [] c = "D" -> "d"
      [] c = "E" -> "e" [] c = "F" -> "f" [] c = "G" -> "g" [] c = "H" -> "h"
      [] c = "I" -> "i" [] c = "J" -> "j" [] c = "K" -> "k" [] c = "L" -> "l"
      [] c = "M" -> "m" [] c = "N" -> "n" [] c = "O" -> "o" [] c = "P" -> "p"
      [] c = "Q" -> "q" [] c = "R" -> "r" [] c = "S" -> "s" [] c = "T" -> "t"
      [] c = "U" -> "u" [] c = "V" -> "v" [] c = "W" -> "w" [] c = "X" -> "x"
      [] c = "Y" -> "y" [] c = "Z" -> "z" [] OTHER -> c

\* str.lower()
lower(s) == [i \in 1..Len(s) |-> LowerChar(s[i])]

Usernames ==
    {<<>>, <<"a", "d", "m", "i", "n">>, <<"A", "d", "m", "i", "n">>,
     <<"A", "D", "M", "I", "N">>, <<"a", "d", "m", "i", "n", "s">>, <<"r", "o", "o", "t">>}

Passwords == {"", "Hemlock123", "hemlock123", "HEMLOCK123"}

\* the test with 'or' in place of 'and'
CredentialsOkEither(u, p) == lower(u) = <<"a", "d", "m", "i", "n">> \/ p = "Hemlock123"

\* the test of line 202
CredentialsOk(u, p) == lower(u) = <<"a", "d", "m", "i", "n">> /\ p = "Hemlock123"

RunOf(auth, clicked, called, view) ==
    [auth_at_start |-> auth, clicked |-> clicked, called_load |-> called, view |-> view]

\* lines 195-207: the login form, with the inputs u and p and the button's value
LoginBranch(u, p, clicked) ==
    /\ UNCHANGED <<last, prev>>
    /\ IF clicked /\ CredentialsOk(u, p)
       THEN /\ session_state' = session_state \cup {"authenticated"}
            /\ rerun_requested' = TRUE
            /\ run' = RunOf(FALSE, clicked, FALSE, "login")
       ELSE /\ UNCHANGED session_state
            /\ rerun_requested' = FALSE
            /\ run' = RunOf(FALSE, clicked, FALSE,
                            IF clicked THEN "invalid_credentials" ELSE "login")

\* a load whose issues list outlives the call, as a mutable default argument
\* 'issues=[]' of validate_data would make it
DashboardBranchKeepingIssues ==
    LET got == load_sales_data(file)
        kept == [got EXCEPT !.issues = last.issues \o got.issues]
    IN  /\ last' = kept
        /\ prev' = last
        /\ rerun_requested' = FALSE
        /\ run' = RunOf(TRUE, FALSE, TRUE, IF got.none THEN "nothing" ELSE "dashboard")
        /\ UNCHANGED session_state

\* lines 209-267: load, and the dashboard when the load returned a table
DashboardBranch ==
    LET got == load_sales_data(file)
    IN  /\ last' = got
        /\ prev' = last
        /\ rerun_requested' = FALSE
        /\ run' = RunOf(TRUE, FALSE, TRUE, IF got.none THEN "nothing" ELSE "dashboard")
        /\ UNCHANGED session_state

main(u, p, clicked) ==
    /\ username' = u
    /\ password' = p
    /\ UNCHANGED file
    /\ IF "authenticated" \notin session_state
       THEN LoginBranch(u, p, clicked)
       ELSE DashboardBranch

FormShown == ~rerun_requested /\ "authenticated" \notin session_state

\* the user edits the Username input: the script runs with the new value
EnterUsername == FormShown /\ \E u \in Usernames : u # username /\ main(u, password, FALSE)

\* the user edits the Password input
EnterPassword == FormShown /\ \E p \in Passwords : p # password /\ main(username, p, FALSE)

\* the user clicks Log In
ClickLogIn == FormShown /\ main(username, password, TRUE)

\* the run that st.rerun() asked for, or one a sidebar widget triggers
Rerun == main(username, password, FALSE)

InitSession ==
    /\ session_state = {}
    /\ username = <<>>
    /\ password = ""
    /\ rerun_requested = FALSE
    /\ run = RunOf(FALSE, FALSE, FALSE, "login")
    /\ last = NotRun
    /\ prev = NotRun

Init == file \in SessionFiles /\ InitSession

Next == EnterUsername \/ EnterPassword \/ ClickLogIn \/ Rerun

Spec == Init /\ [][Next]_vars

\* the load alone, over every workbook: the session has just logged in and the
\* run that st.rerun() asked for is about to start
InitLoad ==
    /\ file \in Files
    /\ session_state = {"authenticated"}
    /\ username = <<"a", "d", "m", "i", "n">>
    /\ password = "Hemlock123"
    /\ rerun_requested = TRUE
    /\ run = RunOf(FALSE, TRUE, FALSE, "login")
    /\ last = NotRun
    /\ prev = NotRun

NextLoad == Rerun

SpecLoad == InitLoad /\ [][NextLoad]_vars

(***************************************************************************)
(* What the claims speak of, stated over the workbook itself.              *)
(***************************************************************************)
UsedColumns == {"Order type", "Total sales", "Covers", "Receipts"}

Present(col) == file.readable /\ HasColumn(file, col)

KindsIn(col) == {file.rows[i][col].t : i \in 1..Len(file.rows)}

\* the numeric value a cell stands for: '$' and ',' stripped, a whole number
\* of dollars; a cell that is no number stands for 0
IsAmount(chars) ==
    LET kept == SelectSeq(chars, LAMBDA c : c \notin {"$", ","})
        dots == {i \in 1..Len(kept) : kept[i] = "."}
        dot == IF dots = {} THEN Len(kept) + 1 ELSE CHOOSE i \in dots : \A j \in dots : i <= j
    IN  /\ dot > 1
        /\ \A i \in 1..(dot - 1) : IsDigit(kept[i])
        /\ \A i \in (dot + 1)..Len(kept) : kept[i] = "0"

AmountOf(chars) ==
    LET kept == SelectSeq(chars, LAMBDA c : c \notin {"$", ","})
        dots == {i \in 1..Len(kept) : kept[i] = "."}
        dot == IF dots = {} THEN Len(kept) + 1 ELSE CHOOSE i \in dots : \A j \in dots : i <= j
    IN  DigitsValue(SubSeq(kept, 1, dot - 1))

Coerced(cell) ==
    IF cell.t = "num" THEN cell.n
    ELSE IF cell.t = "str" /\ IsAmount(cell.s) THEN AmountOf(cell.s)
    ELSE 0

RECURSIVE CoercedTotal(_, _)
\* the sum of the coerced cells of a column over the first n rows
CoercedTotal(col, n) ==
    IF n = 0 THEN 0 ELSE CoercedTotal(col, n - 1) + Coerced(file.rows[n][col])

RECURSIVE NetTotal(_)
\* the sum of gross - loss - returned over the first n rows
NetTotal(n) ==
    IF n = 0 THEN 0
    ELSE NetTotal(n - 1) + Coerced(file.rows[n]["Total sales"])
             - Coerced(file.rows[n]["Loss Amount"]) - Coerced(file.rows[n]["Returned Amount"])

RECURSIVE DictTotal(_, _)
\* the sum of the values of a by_order_type dict over the keys ks
DictTotal(d, ks) ==
    IF ks = {} THEN 0
    ELSE LET k == CHOOSE x \in ks : TRUE IN d[k].v + DictTotal(d, ks \ {k})

\* the tables whose totals calculate_metrics can divide: they have a row, the
\* four columns it reads, and no string in the three it sums
Computable ==
    /\ file.readable
    /\ Len(file.rows) > 0
    /\ \A c \in UsedColumns : HasColumn(file, c)
    /\ \A st \in {TotalSteps[i] : i \in 1..3} : "str" \notin KindsIn(st.col)

C2_ZeroDenominatorUndefined ==
    (/\ last.called /\ file.readable
     /\ \A c \in UsedColumns : HasColumn(file, c)
     /\ \A i \in 1..3 : "str" \notin KindsIn(TotalSteps[i].col))
        => /\ ~last.none
           /\ \A i \in 1..3 :
                LET st == RatioSteps[i] IN
                last.metrics[st.den].v = 0 => last.metrics[st.metric].k = "undefined"

(***************************************************************************)
(* C3.  Coercion is total: whatever the cells of the numeric columns hold, *)
(* the load returns metrics, and a malformed cell adds 0 to its column's   *)
(* total.                                                                  *)
(***************************************************************************)
C3_CoercionIsTotal ==
    (/\ last.called /\ file.readable /\ Len(file.rows) > 0
     /\ \A c \in UsedColumns : HasColumn(file, c)
     /\ \A i \in 1..Len(file.rows) : \A c \in {"Total sales", "Covers", "Receipts"} :
            file.rows[i][c].t = "str" => ~IsAmount(file.rows[i][c].s))
        => /\ ~last.none
           /\ \A i \in 1..3 :
                last.metrics[TotalSteps[i].metric].v
                    = CoercedTotal(TotalSteps[i].col, Len(file.rows))

(***************************************************************************)
(* C4.  Currency-formatted 'Total sales' cells are coerced before summing: *)
(* the total is the sum of their numeric values, and the breakdown has one *)
(* entry per order type.                                                   *)
(***************************************************************************)
C4_CurrencyCellsCoerced ==
    (/\ last.called /\ file.readable /\ Len(file.rows) > 0
     /\ file.columns = <<"Order type", "Total sales", "Covers", "Receipts">>
     /\ \A i \in 1..Len(file.rows) :
            /\ file.rows[i]["Order type"].t = "str"
            /\ file.rows[i]["Total sales"].t = "str"
            /\ IsAmount(file.rows[i]["Total sales"].s)
            /\ file.rows[i]["Covers"].t = "num"
            /\ file.rows[i]["Receipts"].t = "num")
        => /\ ~last.none
           /\ last.metrics["total_sales"].v = CoercedTotal("Total sales", Len(file.rows))
           /\ DOMAIN last.breakdowns["total_sales"].by_order_type
                  = {file.rows[i]["Order type"] : i \in 1..Len(file.rows)}

(***************************************************************************)
(* C5.  As claimed: a sheet that lacks any of the six required columns     *)
(* gets no metrics.                                                        *)
(***************************************************************************)
C5_MissingRequiredColumnFatal ==
    (last.called /\ file.readable
        /\ \E i \in 1..Len(required_columns) : ~HasColumn(file, required_columns[i]))
        => last.none /\ run.view # "dashboard"

(***************************************************************************)
(* C5, amended.  A sheet that lacks a column calculate_metrics reads       *)
(* ('Order type', 'Total sales', 'Covers', 'Receipts') gets no metrics and *)
(* no dashboard; a sheet that lacks only 'USD/cover' or 'USD/receipt' gets *)
(* a warning that names them, and its load is decided by the other         *)
(* columns.                                                                *)
(***************************************************************************)
C5_MissingUsedColumnFatal ==
    (last.called /\ file.readable)
        => /\ (\E c \in UsedColumns : ~HasColumn(file, c))
                => last.none /\ run.view = "nothing"
           /\ (\E i \in 1..Len(required_columns) : ~HasColumn(file, required_columns[i]))
                => /\ Len(last.issues) > 0
                   /\ last.issues[1].kind = "missing_columns"
                   /\ ColumnSet(last.issues[1].col) = ColumnSet(required_columns) \ ColumnSet(file.columns)
           /\ (Computable /\ ColumnSet(file.columns) \cup {"USD/cover", "USD/receipt"}
                                 = ColumnSet(file.columns) \cup ColumnSet(required_columns))
                => ~last.none

C5_Witness ==
    /\ last.called /\ file.readable /\ Len(file.rows) = 2
    /\ ~HasColumn(file, "Covers")
    /\ KindsIn("Total sales") = {"num"} /\ KindsIn("Receipts") = {"num"}
    /\ last.none /\ run.view = "nothing"

C7_NetOfLossAndReturns ==
    (/\ last.called /\ ~last.none
     /\ Present("Loss Amount") /\ Present("Returned Amount"))
        => last.metrics["total_sales"].v = NetTotal(Len(file.rows))

(***************************************************************************)
(* C8.  Whenever calculate_metrics succeeds, the by_order_type values of   *)
(* each total add up to the total.                                         *)
(***************************************************************************)
C8_BreakdownReconciles ==
    (last.called /\ ~last.none)
        => \A i \in 1..3 :
              LET m == TotalSteps[i].metric
                  by == last.breakdowns[m].by_order_type
              IN  DictTotal(by, DOMAIN by) = last.metrics[m].v

(***************************************************************************)
(* C9.  Login gate.  A run calls load_sales_data only if 'authenticated'   *)
(* was in the session state when it started; the flag appears only in a    *)
(* run where Log In was clicked with a username that is "admin" in any     *)
(* letter case and the password "Hemlock123"; a click with other           *)
(* credentials leaves the session state as it was and shows the error;     *)
(* the flag, once set, stays.                                              *)
(***************************************************************************)
IsAdmin(u) ==
    /\ Len(u) = 5
    /\ \A i \in 1..5 : u[i] \in {<<"a", "d", "m", "i", "n">>[i], <<"A", "D", "M", "I", "N">>[i]}

C9_LoginGate ==
    [][/\ (run'.called_load \/ last' # last \/ run'.view \in {"dashboard", "nothing"})
            => "authenticated" \in session_state
       /\ ("authenticated" \notin session_state /\ "authenticated" \in session_state')
            => run'.clicked /\ IsAdmin(username') /\ password' = "Hemlock123"
       /\ (run'.clicked /\ ~(IsAdmin(username') /\ password' = "Hemlock123"))
            => session_state' = session_state /\ run'.view = "invalid_credentials"
       /\ "authenticated" \in session_state => "authenticated" \in session_state']_vars

C9_Witness ==
    /\ "authenticated" \in session_state
    /\ username = <<"A", "D", "M", "I", "N">>
    /\ run.view = "dashboard" /\ run.called_load /\ ~last.none

(***************************************************************************)
(* C10.  The load is all or nothing: it returns the table with all six     *)
(* metrics and the dashboard is drawn, or it returns (None, None, None)    *)
(* and nothing is drawn; it returns None exactly when the workbook cannot  *)
(* be read or a step of calculate_metrics raises, whatever the validation  *)
(* issues.                                                                 *)
(***************************************************************************)
C10_AllOrNothing ==
    last.called
        => /\ \/ /\ last.none /\ last.df = NoTable
                 /\ last.metrics = EmptyDict /\ last.breakdowns = EmptyDict
                 /\ run.view = "nothing"
              \/ /\ ~last.none /\ last.df = file
                 /\ DOMAIN last.metrics = MetricNames
                 /\ DOMAIN last.breakdowns = MetricNames
                 /\ run.view = "dashboard"
           /\ last.none <=> ~Computable

C10_Witness ==
    /\ last.called /\ ~last.none
    /\ Len(last.issues) > 1
    /\ \E i \in 1..Len(last.issues) : last.issues[i].kind = "non_numeric"

====
